---- MODULE Spec2Model ----
(***************************************************************************)
(* A model of the four Ideogram bulk downloaders:                          *)
(*   download.py          direct HTTP: probe, paginate, download           *)
(*   download_browser.py  Playwright, responses intercepted, then download *)
(*   download_local.py    Playwright with the user's own browser           *)
(*   download_stealth.py  undetected Chrome, injected fetch/XHR capture    *)
(* One run of one variant is one behaviour; the variant is chosen in Init. *)
(***************************************************************************)
EXTENDS Integers, Sequences, FiniteSets, TLC

(***************************************************************************)
(* JSON values, as Python sees them after json.loads / response.json().    *)
(* Every value is a record of one shape: t the type, s the text of a       *)
(* string or number, e the elements of a list or the values of a dict,     *)
(* k the keys of a dict, in insertion order (k[n] is the key of e[n]).     *)
(***************************************************************************)
JNull == [t |-> "null", s |-> "", e |-> <<>>, k |-> <<>>]

JStr(x) == [t |-> "str", s |-> x, e |-> <<>>, k |-> <<>>]

JNum(x) == [t |-> "num", s |-> x, e |-> <<>>, k |-> <<>>]

JList(elems) == [t |-> "list", s |-> "", e |-> elems, k |-> <<>>]

JDict(keys, vals) == [t |-> "dict", s |-> "", e |-> vals, k |-> keys]

IsDict(v) == v.t = "dict"

IsList(v) == v.t = "list"

IsStr(v) == v.t = "str"

\* Python truthiness: None, "", 0, [] and {} are false.
Truthy(v) ==
    CASE v.t = "null" -> FALSE
      [] v.t = "str"  -> v.s # ""
      [] v.t = "num"  -> v.s # "0"
      [] OTHER        -> v.e # <<>>

\* `key in d`
HasKey(d, key) == \E n \in 1..Len(d.k) : d.k[n] = key

\* d.get(key, default)
GetOr(d, key, default) ==
    IF HasKey(d, key)
    THEN d.e[CHOOSE n \in 1..Len(d.k) : d.k[n] = key]
    ELSE default

\* d.get(key)
Get(d, key) == GetOr(d, key, JNull)

\* Python's `a or b`
PyOr(a, b) == IF Truthy(a) THEN a ELSE b

\* any(k in d for k in keys)
AnyKey(d, keys) == \E key \in keys : HasKey(d, key)

(***************************************************************************)
(* The records and response bodies the runs are fed.                       *)
(***************************************************************************)
EA1 == JDict(<<"response_id", "prompt">>, <<JStr("a"), JStr("cat")>>)

EA2 == JDict(<<"response_id", "prompt">>, <<JStr("a"), JStr("cat2")>>)

\* identified by `id` only
EB == JDict(<<"id", "prompt", "thumbnail_url">>,
            <<JStr("b"), JStr("eel"), JStr("https://x/img?w=100")>>)

\* neither response_id nor id
EU == JDict(<<"request_id", "url", "prompt">>,
            <<JStr("q"), JStr("https://x/u.png"), JStr("dog")>>)

\* a prompt that is not a string
EN == JDict(<<"response_id", "prompt">>, <<JStr("c"), JNum("5")>>)

Bodies ==
    { JList(<<>>),
      JList(<<EA1, EB>>),
      JList(<<EU>>),
      JList(<<EN>>),
      JDict(<<"responses">>, <<JList(<<EA1, EA2>>)>>),
      JDict(<<"data", "cursor">>,
            <<JDict(<<"items">>, <<JList(<<EB, EA2>>)>>),
              JDict(<<"id">>, <<JStr("n1")>>)>>),
      JNull }

\* a body that is not JSON: response.json() raises on it
BadJson == [t |-> "badjson", s |-> "<html>", e |-> <<>>, k |-> <<>>]

(***************************************************************************)
(* Extractors.                                                             *)
(***************************************************************************)
\* the sequences joined last one first
RECURSIVE ConcatBackwards(_)
ConcatBackwards(seqs) ==
    IF seqs = <<>> THEN <<>> ELSE ConcatBackwards(Tail(seqs)) \o Head(seqs)

\* `images.extend(...)` over the children, in their order
RECURSIVE Concat(_)
Concat(seqs) == IF seqs = <<>> THEN <<>> ELSE Head(seqs) \o Concat(Tail(seqs))

\* download.py, _extract_images: the first key of `keys` holding a list
RECURSIVE FirstListKey(_, _)
FirstListKey(data, keys) ==
    IF keys = <<>> THEN <<>>
    ELSE IF HasKey(data, Head(keys)) /\ IsList(Get(data, Head(keys)))
         THEN <<Get(data, Head(keys))>>
         ELSE FirstListKey(data, Tail(keys))

\* download.py, _extract_images: the first value that is a non-empty list
\* whose first element is a dict
RECURSIVE FirstDictList(_)
FirstDictList(vals) ==
    IF vals = <<>> THEN <<>>
    ELSE IF IsList(Head(vals)) /\ Len(Head(vals).e) > 0 /\ IsDict(Head(vals).e[1])
         THEN <<Head(vals)>>
         ELSE FirstDictList(Tail(vals))

CommonKeys ==
    <<"responses", "images", "results", "data", "creations", "items", "generations">>

_extract_images(data) ==
    IF IsList(data) THEN data.e
    ELSE IF IsDict(data)
         THEN IF FirstListKey(data, CommonKeys) # <<>>
              THEN FirstListKey(data, CommonKeys)[1].e
              ELSE IF FirstDictList(data.e) # <<>>
                   THEN FirstDictList(data.e)[1].e
                   ELSE <<>>
         ELSE <<>>

\* a depth test that never stops the descent
NeverTooDeep(depth, max) == FALSE

\* `if depth > 10: return []` (download_local.py: 8)
TooDeep(depth, max) == depth > max

BrowserMaxDepth == 10

BrowserItemKeys == {"response_id", "url", "image_url", "thumbnail_url", "prompt"}

BrowserDictKeys == {"response_id", "url", "image_url", "thumbnail_url"}

\* download_browser.py, _find_images_recursive
RECURSIVE _find_images_recursive(_, _)
_find_images_recursive(data, depth) ==
    IF TooDeep(depth, BrowserMaxDepth) THEN <<>>
    ELSE IF IsList(data)
         THEN Concat([n \in 1..Len(data.e) |->
                 IF IsDict(data.e[n])
                 THEN IF AnyKey(data.e[n], BrowserItemKeys)
                      THEN <<data.e[n]>>
                      ELSE _find_images_recursive(data.e[n], depth + 1)
                 ELSE IF IsList(data.e[n])
                      THEN _find_images_recursive(data.e[n], depth + 1)
                      ELSE <<>>])
         ELSE IF IsDict(data)
              THEN (IF AnyKey(data, BrowserDictKeys) /\ HasKey(data, "prompt")
                    THEN <<data>> ELSE <<>>)
                   \o Concat([n \in 1..Len(data.e) |->
                         IF IsList(data.e[n]) \/ IsDict(data.e[n])
                         THEN _find_images_recursive(data.e[n], depth + 1)
                         ELSE <<>>])
              ELSE <<>>

LocalMaxDepth == 8

LocalItemKeys == {"response_id", "url", "thumbnail_url"}

\* download_local.py, _find_images
RECURSIVE _find_images(_, _)
_find_images(data, depth) ==
    IF TooDeep(depth, LocalMaxDepth) THEN <<>>
    ELSE IF IsList(data)
         THEN Concat([n \in 1..Len(data.e) |->
                 IF IsDict(data.e[n]) /\ AnyKey(data.e[n], LocalItemKeys)
                 THEN <<data.e[n]>>
                 ELSE _find_images(data.e[n], depth + 1)])
         ELSE IF IsDict(data)
              THEN (IF HasKey(data, "response_id") /\ HasKey(data, "prompt")
                    THEN <<data>> ELSE <<>>)
                   \o Concat([n \in 1..Len(data.e) |->
                         IF IsList(data.e[n]) \/ IsDict(data.e[n])
                         THEN _find_images(data.e[n], depth + 1)
                         ELSE <<>>])
              ELSE <<>>

StealthMaxDepth == 10

\* download_stealth.py, find_images_recursive
RECURSIVE find_images_recursive(_, _)
find_images_recursive(data, depth) ==
    IF TooDeep(depth, StealthMaxDepth) THEN <<>>
    ELSE IF IsList(data)
         THEN Concat([n \in 1..Len(data.e) |->
                 IF IsDict(data.e[n])
                 THEN IF HasKey(data.e[n], "response_id")
                      THEN <<data.e[n]>>
                      ELSE find_images_recursive(data.e[n], depth + 1)
                 ELSE IF IsList(data.e[n])
                      THEN find_images_recursive(data.e[n], depth + 1)
                      ELSE <<>>])
         ELSE IF IsDict(data)
              THEN (IF HasKey(data, "response_id") THEN <<data>> ELSE <<>>)
                   \o Concat([n \in 1..Len(data.e) |->
                         IF IsList(data.e[n]) \/ IsDict(data.e[n])
                         THEN find_images_recursive(data.e[n], depth + 1)
                         ELSE <<>>])
              ELSE <<>>

(***************************************************************************)
(* Identity keys.                                                          *)
(***************************************************************************)
\* download_stealth.py: rid = img.get('response_id') or img.get('id')
StealthKey(img) == PyOr(Get(img, "response_id"), Get(img, "id"))

\* download_browser.py: ... or img.get('request_id', '')
BrowserKey(img) ==
    PyOr(PyOr(Get(img, "response_id"), Get(img, "id")),
         GetOr(img, "request_id", JStr("")))

\* download_local.py: ... or id(img). id(img) is the address of the object,
\* different for every record held in api_responses; `where` stands for it.
ObjectId(where) == [t |-> "objid", s |-> ToString(where), e |-> <<>>, k |-> <<>>]

LocalKey(img, where) ==
    PyOr(PyOr(Get(img, "response_id"), Get(img, "id")), ObjectId(where))

(***************************************************************************)
(* Bounds of the model.                                                    *)
(***************************************************************************)
\* pages fetch_all_images may request before the model stops following it
MaxPages == 3

\* responses the Observer feed delivers in one run
MaxResponses == 2

(***************************************************************************)
(* download.py: the endpoints probed. A URL is its path and its query      *)
(* parameters; a body is absent or a dict, of which only `page` is read.   *)
(***************************************************************************)
NoPage == -1

NoBody == [dict |-> FALSE, page |-> NoPage]

BodyDict(p) == [dict |-> TRUE, page |-> p]

Url(path, query) == [path |-> path, query |-> query]

Param(name, val) == [name |-> name, val |-> val]

Endpoint(method, url, body) == [method |-> method, url |-> url, body |-> body]

endpoints_to_try ==
    << Endpoint("POST", Url("retrieve_metadata_user_id", <<>>), NoBody),
       Endpoint("POST", Url("retrieve_user_creations", <<>>), BodyDict(NoPage)),
       Endpoint("GET", Url("images/user", <<>>), NoBody),
       Endpoint("GET", Url("users/images", <<>>), NoBody),
       Endpoint("GET", Url("creations", <<>>), NoBody),
       Endpoint("GET", Url("profile", <<>>), NoBody),
       Endpoint("GET", Url("retrieve_user", <<>>), NoBody),
       Endpoint("POST", Url("images/search", <<>>), BodyDict(0)),
       Endpoint("GET", Url("images/user", <<Param("page", 0)>>), NoBody),
       Endpoint("GET", Url("images/user",
                           <<Param("offset", 0), Param("limit", 50)>>), NoBody),
       Endpoint("POST", Url("graphql", <<>>), BodyDict(NoPage)) >>

NoEndpoint == Endpoint("", Url("", <<>>), NoBody)

\* `"?" in url`
HasQuery(url) == url.query # <<>>

\* `"page" in url`
HasPageParam(url) == \E n \in 1..Len(url.query) : url.query[n].name = "page"

\* url.replace(f"page={old}", f"page={new}")
ReplacePage(url, old, new) ==
    [url EXCEPT !.query =
        [n \in 1..Len(url.query) |->
            IF url.query[n].name = "page" /\ url.query[n].val = old
            THEN Param("page", new)
            ELSE url.query[n]]]

\* f"{url}&page={page}" and f"{url}?page={page}"
AppendPage(url, p) == [url EXCEPT !.query = Append(url.query, Param("page", p))]

\* the request fetch_all_images sends for `p` (lines 204-211)
PageRequest(ep, p) ==
    IF ep.body.dict
    THEN [method |-> "POST", url |-> ep.url, body |-> BodyDict(p)]
    ELSE IF HasQuery(ep.url)
         THEN [method |-> "GET",
               url |-> IF ~HasPageParam(ep.url)
                       THEN AppendPage(ep.url, p)
                       ELSE ReplacePage(ep.url, p - 1, p),
               body |-> NoBody]
         ELSE [method |-> "GET", url |-> AppendPage(ep.url, p), body |-> NoBody]

\* the page number a request asks the server for
RECURSIVE LastPageParam(_)
LastPageParam(query) ==
    IF query = <<>> THEN NoPage
    ELSE IF query[Len(query)].name = "page"
         THEN query[Len(query)].val
         ELSE LastPageParam(SubSeq(query, 1, Len(query) - 1))

AskedPage(req) ==
    IF req.body.dict THEN req.body.page ELSE LastPageParam(req.url.query)

(***************************************************************************)
(* Transport results.                                                      *)
(***************************************************************************)
Raised == [kind |-> "raised", status |-> 0, ctype |-> "", body |-> JNull, size |-> 0]

Response(status, ctype, body) ==
    [kind |-> "resp", status |-> status, ctype |-> ctype, body |-> body, size |-> 0]

\* what a probe or a page request may come back with
ApiResults ==
    {Raised, Response(404, "application/json", JNull),
     Response(200, "text/html", BadJson)}
    \cup {Response(200, "application/json", b) : b \in Bodies \cup {BadJson}}

\* `"json" in content_type`
IsJsonType(ctype) == ctype = "application/json"

\* the words of json.dumps(data): every key and every string in it
RECURSIVE Words(_)
Words(v) ==
    IF v.t = "str" THEN {v.s}
    ELSE IF v.t \in {"list", "dict"}
         THEN {v.k[n] : n \in 1..Len(v.k)}
              \cup UNION {Words(v.e[n]) : n \in 1..Len(v.e)}
         ELSE {}

\* the tokens of the image-data tests that occur inside a word
TokensIn(word) ==
    CASE word = "response_id"   -> {"response_id"}
      [] word = "image_url"     -> {"image_url", "url"}
      [] word = "url"           -> {"url"}
      [] word = "thumbnail_url" -> {"thumbnail_url", "thumbnail", "url"}
      [] word = "prompt"        -> {"prompt"}
      [] OTHER                  -> {}

\* any(k in json.dumps(data) for k in tokens)
DumpHasAny(data, tokens) ==
    \E w \in Words(data) : TokensIn(w) \cap tokens # {}

ProbeTokens == {"response_id", "image_url", "url", "thumbnail", "prompt"}

\* no callback is waiting
NoEvent == [api |-> FALSE, status |-> 0, ctype |-> "", body |-> JNull]

\* `resp` before the first probe and after discover_api has returned
NoResponse == [kind |-> "none", status |-> 0, ctype |-> "", body |-> JNull, size |-> 0]

\* line 161 with the candidate put at the front of the list
PrependWorking(endpoints, ep) == <<ep>> \o endpoints

\* line 161: working_endpoints.append((method, url, body, data))
AppendWorking(endpoints, ep) == Append(endpoints, ep)

\* discover_api, lines 150-167: is the candidate appended to working_endpoints
ProbeVerified(res) ==
    /\ res.kind = "resp"
    /\ res.status = 200
    /\ IsJsonType(res.ctype)
    /\ res.body # BadJson
    /\ DumpHasAny(res.body, ProbeTokens)

\* what a download request may come back with
ImageResult(status, ctype, size) ==
    [kind |-> "resp", status |-> status, ctype |-> ctype, body |-> JNull, size |-> size]

\* the answers to the download requests of a whole run
ImageResults ==
    {Raised, ImageResult(404, "text/html", 500), ImageResult(200, "image/png", 50000)}

\* the answers to the requests of one download pass: bodies of several
\* sizes, content types, and a response without a content-type header
DownloadResults ==
    ImageResults
    \cup {ImageResult(200, "image/png", 500), ImageResult(200, "image/jpeg", 2000),
          ImageResult(200, "image/jpg", 2500), ImageResult(200, "image/webp", 3000),
          ImageResult(200, "", 4000)}

(***************************************************************************)
(* File names.  A name is the sequence of its characters.                  *)
(***************************************************************************)
\* the characters of the prompts the runs are fed
LongPrompt == [n \in 1..62 |-> IF n > 61 THEN "/" ELSE "a"]

Chars(text) ==
    CASE text = "cat"       -> <<"c", "a", "t">>
      [] text = "cat2"      -> <<"c", "a", "t", "2">>
      [] text = "eel"       -> <<"e", "e", "l">>
      [] text = "dog"       -> <<"d", "o", "g">>
      [] text = "fox"       -> <<"f", "o", "x">>
      [] text = "unknown"   -> <<"u", "n", "k", "n", "o", "w", "n">>
      [] text = "untitled"  -> <<"u", "n", "t", "i", "t", "l", "e", "d">>
      [] text = "../a/b"    -> <<".", ".", "/", "a", "/", "b">>
      [] text = " a.b c\\d " -> <<" ", "a", ".", "b", " ", "c", "\\", "d", " ">>
      [] text = "long"      -> LongPrompt
      [] OTHER              -> <<>>

\* \w, for the characters above
IsWordChar(c) == c \in {"a", "b", "c", "d", "e", "f", "g", "i", "k", "l", "n", "o",
                        "t", "u", "w", "x", "0", "1", "2", "3", "4", "5", "6", "7",
                        "8", "9", "_"}

\* \s
IsSpaceChar(c) == c = " "

\* re.sub that removes nothing
KeepAll(chars) == chars

\* prompt[:60]
First60(chars) == SubSeq(chars, 1, IF Len(chars) < 60 THEN Len(chars) ELSE 60)

\* re.sub(r'[^\w\s-]', '', ...)
RECURSIVE SubNonWord(_)
SubNonWord(chars) ==
    IF chars = <<>> THEN <<>>
    ELSE (IF IsWordChar(Head(chars)) \/ IsSpaceChar(Head(chars)) \/ Head(chars) = "-"
          THEN <<Head(chars)>> ELSE <<>>) \o SubNonWord(Tail(chars))

\* .strip()
RECURSIVE Strip(_)
Strip(chars) ==
    IF chars = <<>> THEN <<>>
    ELSE IF IsSpaceChar(Head(chars)) THEN Strip(Tail(chars))
         ELSE IF IsSpaceChar(chars[Len(chars)])
              THEN Strip(SubSeq(chars, 1, Len(chars) - 1))
              ELSE chars

\* .replace(' ', '_')
ReplaceSpaces(chars) == [n \in 1..Len(chars) |-> IF chars[n] = " " THEN "_" ELSE chars[n]]

\* re.sub(r'[^\w\s-]', '', prompt[:60]).strip().replace(' ', '_')
safe_prompt(prompt) == ReplaceSpaces(Strip(SubNonWord(First60(Chars(prompt.s)))))

\* the decimal digits of n
RECURSIVE Digits(_)
Digits(n) ==
    IF n < 10 THEN <<CASE n = 0 -> "0" [] n = 1 -> "1" [] n = 2 -> "2" [] n = 3 -> "3"
                       [] n = 4 -> "4" [] n = 5 -> "5" [] n = 6 -> "6" [] n = 7 -> "7"
                       [] n = 8 -> "8" [] OTHER -> "9">>
    ELSE Digits(n \div 10) \o Digits(n % 10)

RECURSIVE ZeroPad(_, _)
ZeroPad(digits, width) ==
    IF Len(digits) >= width THEN digits ELSE ZeroPad(<<"0">> \o digits, width)

\* four digits and no more: the last four of a longer index
FourDigitsOnly(index) == ZeroPad(Digits(index % 10000), 4)

\* f"{index:04d}"
Format04d(index) == ZeroPad(Digits(index), 4)

\* 'jpeg' in content_type or 'jpg' in content_type; 'webp' in content_type
MentionsJpeg(ctype) == ctype \in {"image/jpeg", "image/jpg"}

MentionsWebp(ctype) == ctype = "image/webp"

\* a response without a content-type header
NoHeader == ""

\* download_stealth.py, line 263: fname = f"{i:04d}_{safe}.png"
StealthExt(ctype) == <<"p", "n", "g">>

\* lines 284-289 of download.py, 310-315 of download_browser.py, 157-158 of
\* download_local.py; headers.get('content-type', 'image/png')
ExtOf(ctype) ==
    IF MentionsJpeg(ctype) THEN <<"j", "p", "g">>
    ELSE IF MentionsWebp(ctype) THEN <<"w", "e", "b", "p">>
         ELSE <<"p", "n", "g">>

\* f"{index:04d}_{safe_prompt}.{ext}"
FileName(index, slug, ext) == Format04d(index) \o <<"_">> \o slug \o <<".">> \o ext

(***************************************************************************)
(* download.py, download_image.                                            *)
(***************************************************************************)
DirectUrl(rid) == JStr("https://ideogram.ai/api/images/direct/" \o rid.s)

\* a resolver that formats the direct URL whether or not there is an identity
AlwaysDirectUrl(image_info) == DirectUrl(JStr("None"))

\* lines 257-272: the URL asked for, JNull when there is none
download_image_url(image_info) ==
    IF IsDict(image_info)
    THEN IF Truthy(PyOr(Get(image_info, "response_id"), Get(image_info, "id")))
         THEN DirectUrl(PyOr(Get(image_info, "response_id"), Get(image_info, "id")))
         ELSE PyOr(PyOr(Get(image_info, "url"), Get(image_info, "image_url")),
                   Get(image_info, "thumbnail_url"))
    ELSE IF IsStr(image_info) THEN image_info ELSE JNull

download_image_prompt(image_info) ==
    IF IsDict(image_info) THEN GetOr(image_info, "prompt", JStr("unknown"))
    ELSE JStr("unknown")

\* lines 274-306: TRUE when the file was written. Anything raised inside the
\* try (the transport, a URL that is no string, prompt[:60] or re.sub on a
\* prompt that is no string) is caught and gives False.
download_image(image_info, res) ==
    /\ Truthy(download_image_url(image_info))
    /\ IsStr(download_image_url(image_info))
    /\ res.kind = "resp"
    /\ res.status = 200
    /\ IsStr(download_image_prompt(image_info))

\* what one pass of a download loop did: whether it counted a success, the
\* requests it sent with their answers, the file it wrote, and whether it
\* ended in an exception nothing catches
NoFile == [written |-> FALSE, name |-> <<>>, size |-> 0, ctype |-> NoHeader]

FileOf(name, res) ==
    [written |-> TRUE, name |-> name, size |-> res.size, ctype |-> res.ctype]

Ask(url, res) == [url |-> url, res |-> res]

Outcome(ok, sent, file, raised) ==
    [ok |-> ok, asked |-> sent, file |-> file, raised |-> raised]

\* open(filepath, "wb") and write: a file of that name is replaced
WriteFile(dir, file) ==
    IF file.written THEN {f \in dir : f.name # file.name} \cup {file} ELSE dir

\* download.py, download_image, lines 254-306: the request is sent when there
\* is a URL, the file is written when download_image returns True
download_image_pass(image_info, index, res) ==
    LET url == download_image_url(image_info)
        sent == IF Truthy(url) /\ IsStr(url) THEN <<Ask(url, res)>> ELSE <<>>
    IN  IF download_image(image_info, res)
        THEN Outcome(TRUE, sent,
                     FileOf(FileName(index,
                                     safe_prompt(download_image_prompt(image_info)),
                                     ExtOf(res.ctype)), res),
                     FALSE)
        ELSE Outcome(FALSE, sent, NoFile, FALSE)

(***************************************************************************)
(* State.                                                                  *)
(***************************************************************************)
VARIABLES
    variant,            \* which script runs
    pc,                 \* where the run is
    fault,              \* the exception that ended the run, "" if none
    probe_i,            \* discover_api: index of the next candidate
    probe_res,          \* discover_api: resp, the answer to the last probe
    working_endpoints,  \* discover_api: the verified candidates
    endpoint,           \* fetch_all_images: method, url, body
    page,               \* fetch_all_images: page
    requests,           \* the page requests sent so far
    stalled,            \* a page has added no new identity to the catalog
    api_responses,      \* the captured response bodies
    inflight,           \* the response whose callback waits for its body
    previous_count,     \* scroll loop: previous_count / prev_count / last_height
    no_new_count,       \* scroll loop: no_new_count / stale / stale_count
    scrolls,            \* download_local.py: i of `for i in range(max_scrolls)`
    captured_count,     \* download_stealth.py: captured_count
    cursor,             \* catalog building: the next extracted record
    seen_ids,           \* catalog building: seen_ids / seen
    observed,           \* every record handed to the catalog so far, in order
    dom_images,         \* download_stealth.py: the records scraped from the DOM
    all_images,         \* the catalog (all_images / all_image_data)
    metadata,           \* metadata.json
    i,                  \* the download loop's index
    success,
    failed,
    asked,              \* the requests of the last download pass, with their answers
    files               \* the image files in the output directory

vars == <<variant, pc, fault, probe_i, probe_res, working_endpoints, endpoint, page, requests,
          stalled, api_responses, inflight, previous_count, no_new_count, scrolls,
          captured_count, cursor, seen_ids, observed, dom_images, all_images,
          metadata, i, success, failed, asked, files>>

Variants == {"direct", "browser", "local", "stealth"}

NotWritten == [written |-> FALSE, content |-> <<>>]

Written(images) == [written |-> TRUE, content |-> images]

Init ==
    /\ variant \in Variants
    /\ pc = IF variant = "direct" THEN "discover" ELSE "capture"
    /\ fault = ""
    /\ probe_i = 1
    /\ probe_res = NoResponse
    /\ working_endpoints = <<>>
    /\ endpoint = NoEndpoint
    /\ page = 0
    /\ requests = <<>>
    /\ stalled = FALSE
    /\ api_responses = <<>>
    /\ inflight = NoEvent
    /\ previous_count = 0
    /\ no_new_count = 0
    /\ scrolls = 0
    /\ captured_count = 0
    /\ cursor = 1
    /\ seen_ids = {}
    /\ observed = <<>>
    /\ dom_images = <<>>
    /\ all_images = <<>>
    /\ metadata = NotWritten
    /\ i = 0
    /\ success = 0
    /\ failed = 0
    /\ asked = <<>>
    /\ files = {}

(***************************************************************************)
(* The identity of a record as the specification defines it: response_id,  *)
(* or id when response_id is absent; JNull when it has neither.            *)
(***************************************************************************)
IdentityKey(rec) ==
    IF ~IsDict(rec) THEN JNull
    ELSE IF HasKey(rec, "response_id") THEN Get(rec, "response_id")
         ELSE Get(rec, "id")

Identities(recs) ==
    {IdentityKey(recs[n]) : n \in 1..Len(recs)} \ {JNull}

(***************************************************************************)
(* download.py                                                             *)
(***************************************************************************)
\* discover_api: one pass of the loop over endpoints_to_try
Probe ==
    /\ variant = "direct"
    /\ pc = "discover"
    /\ probe_i <= Len(endpoints_to_try)
    /\ \E res \in ApiResults :
          /\ probe_res' = res
          /\ working_endpoints' =
                IF ProbeVerified(res)
                THEN AppendWorking(working_endpoints, endpoints_to_try[probe_i])
                ELSE working_endpoints
    /\ probe_i' = probe_i + 1
    /\ UNCHANGED <<variant, pc, fault, endpoint, page, requests, stalled,
                   api_responses, cursor, seen_ids, observed, dom_images, all_images,
                   metadata, i, success, failed,
                   inflight, previous_count, no_new_count, scrolls,
                   captured_count, asked, files>>

\* line 194 with the last element in place of endpoints[0]
LastOf(endpoints) == endpoints[Len(endpoints)]

\* line 194: endpoints[0]
FirstOf(endpoints) == endpoints[1]

\* fetch_all_images, lines 181-199, and download_all's return when it gets []
\* The list discover_api returned is not read again after endpoints[0].
ChooseEndpoint ==
    /\ variant = "direct"
    /\ pc = "discover"
    /\ probe_i > Len(endpoints_to_try)
    /\ IF working_endpoints = <<>>
       THEN pc' = "done" /\ endpoint' = endpoint
       ELSE pc' = "paginate" /\ endpoint' = FirstOf(working_endpoints)
    /\ working_endpoints' = <<>>
    /\ probe_res' = NoResponse
    /\ page' = 0
    /\ UNCHANGED <<variant, fault, probe_i, requests, stalled, api_responses,
                   cursor, seen_ids, observed, dom_images, all_images, metadata,
                   i, success, failed,
                   inflight, previous_count, no_new_count, scrolls,
                   captured_count, asked, files>>

\* fetch_all_images(endpoint_info) with a truthy argument: line 181 skips the
\* branch that assigns method, url, body (line 194), so the first pass of
\* `while True` reads the unassigned local `body` at line 204 and raises
\* UnboundLocalError before any request is sent. endpoint_info is never read.
FetchPreselected ==
    /\ variant = "direct"
    /\ pc = "discover"
    /\ probe_i = 1
    /\ \E endpoint_info \in {endpoints_to_try[n] : n \in 1..Len(endpoints_to_try)} :
          endpoint' = endpoint_info
    /\ pc' = "crashed"
    /\ fault' = "body referenced before assignment"
    /\ page' = 0
    /\ UNCHANGED <<variant, probe_i, probe_res, working_endpoints, requests,
                   stalled, api_responses, cursor, seen_ids, observed,
                   dom_images, all_images, metadata, i, success, failed,
                   inflight, previous_count, no_new_count, scrolls,
                   captured_count, asked, files>>

\* download_all, lines 322-338, once fetch_all_images has returned `images`
AfterFetch(images) ==
    IF images = <<>>
    THEN pc' = "done" /\ metadata' = metadata
    ELSE pc' = "download" /\ metadata' = Written(images)

\* every record of `recs` carries an identity the catalog already holds
AllSeen(recs, catalog) ==
    \A n \in 1..Len(recs) :
        /\ IdentityKey(recs[n]) # JNull
        /\ IdentityKey(recs[n]) \in Identities(catalog)

\* lines 222-229: what a page of `images` does to all_images
AbsorbPage(catalog, images) == catalog \o images

\* fetch_all_images: one pass of `while True`
FetchPage ==
    /\ variant = "direct"
    /\ pc = "paginate"
    /\ page < MaxPages
    /\ requests' = Append(requests, PageRequest(endpoint, page))
    /\ endpoint' = IF endpoint.body.dict
                   THEN [endpoint EXCEPT !.body = BodyDict(page)]
                   ELSE endpoint
    /\ \E res \in ApiResults :
          \/ /\ res.kind = "raised"
             /\ pc' = "crashed" /\ fault' = "page request raised"
             /\ UNCHANGED <<page, stalled, observed, all_images, metadata>>
          \/ /\ res.kind = "resp" /\ res.status # 200
             /\ AfterFetch(all_images)
             /\ UNCHANGED <<fault, page, stalled, observed, all_images>>
          \/ /\ res.kind = "resp" /\ res.status = 200 /\ res.body = BadJson
             /\ pc' = "crashed" /\ fault' = "resp.json() raised"
             /\ UNCHANGED <<page, stalled, observed, all_images, metadata>>
          \/ /\ res.kind = "resp" /\ res.status = 200 /\ res.body # BadJson
             /\ _extract_images(res.body) = <<>>
             /\ AfterFetch(all_images)
             /\ stalled' = TRUE
             /\ UNCHANGED <<fault, page, observed, all_images>>
          \/ /\ res.kind = "resp" /\ res.status = 200 /\ res.body # BadJson
             /\ _extract_images(res.body) # <<>>
             /\ all_images' = AbsorbPage(all_images, _extract_images(res.body))
             /\ observed' = observed \o _extract_images(res.body)
             /\ page' = page + 1
             /\ stalled' = (stalled \/ AllSeen(_extract_images(res.body), all_images))
             /\ UNCHANGED <<pc, fault, metadata>>
    /\ UNCHANGED <<variant, probe_res, probe_i, working_endpoints, api_responses, cursor,
                   seen_ids, dom_images, i, success, failed,
                   inflight, previous_count, no_new_count, scrolls,
                   captured_count, asked, files>>

\* a download loop that takes each entity out of the list it iterates
CatalogWithoutEntity(images, index) ==
    SubSeq(images, 1, index) \o SubSeq(images, index + 2, Len(images))

\* the catalog after the pass for images[index]: the loops iterate with
\* enumerate(), and download_image / download_single and the inline passes
\* only read the entity (.get, isinstance); nothing is assigned into the list
\* or into a record.
CatalogAfterPass(images, index) == images

\* download_all, lines 340-348: one pass of the loop over images
DirectDownload ==
    /\ variant = "direct"
    /\ pc = "download"
    /\ i < Len(all_images)
    /\ \E res \in ImageResults :
          \E out \in {download_image_pass(all_images[i + 1], i, res)} :
              /\ IF out.ok
                 THEN success' = success + 1 /\ failed' = failed
                 ELSE failed' = failed + 1 /\ success' = success
              /\ asked' = out.asked
              /\ files' = WriteFile(files, out.file)
    /\ i' = i + 1
    /\ pc' = IF i + 1 = Len(all_images) THEN "done" ELSE pc
    /\ all_images' = CatalogAfterPass(all_images, i)
    /\ UNCHANGED <<variant, probe_res, fault, probe_i, working_endpoints, endpoint, page, requests,
                   stalled, api_responses, cursor, seen_ids, observed, dom_images,
                   metadata,
                   inflight, previous_count, no_new_count, scrolls,
                   captured_count>>

\* _get and _post, lines 94-106: no caller passes a timeout. With curl_cffi the
\* session has its default timeout and a request that is never answered
\* raises (the answer Raised above); with the standard requests session,
\* used when curl_cffi is not installed, session.get() does not return.
NeverAnswered ==
    /\ variant = "direct"
    /\ \/ pc = "discover" /\ probe_i <= Len(endpoints_to_try)
       \/ pc = "paginate" /\ page < MaxPages
       \/ /\ pc = "download"
          /\ i < Len(all_images)
          /\ Truthy(download_image_url(all_images[i + 1]))
          /\ IsStr(download_image_url(all_images[i + 1]))
    /\ pc' = "blocked"
    /\ UNCHANGED <<variant, probe_res, fault, probe_i, working_endpoints, endpoint, page, requests,
                   stalled, api_responses, cursor, seen_ids, observed, dom_images,
                   all_images, metadata, i, success, failed,
                   inflight, previous_count, no_new_count, scrolls,
                   captured_count, asked, files>>

(***************************************************************************)
(* The Observer feed of the browser variants.                              *)
(***************************************************************************)
\* one completed network exchange of the page
Events ==
    [api : BOOLEAN, status : {200, 404},
     ctype : {"application/json", "text/html"}, body : Bodies \cup {BadJson}]

BrowserTokens == {"response_id", "thumbnail_url", "prompt", "image_url"}

\* download_browser.py, intercept_response: is the body appended
intercept_response(ev) ==
    /\ ev.api
    /\ ev.status = 200
    /\ IsJsonType(ev.ctype)
    /\ ev.body # BadJson
    /\ DumpHasAny(ev.body, BrowserTokens)

\* download_local.py, on_response: is the body appended
on_response(ev) ==
    /\ ev.api
    /\ ev.status = 200
    /\ IsJsonType(ev.ctype)
    /\ ev.body # BadJson

\* download_stealth.py, INTERCEPTOR_JS: is the body pushed to __ideo_captured
\* (response.ok, or 200 <= status < 300, and JSON.parse succeeds)
interceptor_js(ev) ==
    /\ ev.status >= 200 /\ ev.status < 300
    /\ ev.body # BadJson

Captures(ev) ==
    CASE variant = "browser" -> intercept_response(ev)
      [] variant = "local"   -> on_response(ev)
      [] OTHER               -> interceptor_js(ev)

\* an append that stores only the first record of a body that is a list
RecordFirstOnly(responses, body) ==
    Append(responses,
           IF IsList(body) /\ Len(body.e) > 1 THEN JList(<<body.e[1]>>) ELSE body)

\* self.api_responses.append({'url': url, 'data': body}): one append of the
\* whole decoded body
Record(responses, body) == Append(responses, body)

\* the tests a callback makes before it waits for the body: url, status and
\* content type in download_browser.py (lines 38-42) and download_local.py
\* (lines 45-53), response.ok in INTERCEPTOR_JS (line 58)
Awaits(ev) ==
    CASE variant = "browser" -> ev.api /\ ev.status = 200 /\ IsJsonType(ev.ctype)
      [] variant = "local"   -> ev.api /\ ev.status = 200 /\ IsJsonType(ev.ctype)
      [] OTHER               -> ev.status >= 200 /\ ev.status < 300

\* the phases in which the page is open and its responses are listened to
Listening ==
    \/ pc \in {"capture", "capture2", "scroll", "scroll2"}
    \/ variant \in {"browser", "local"} /\ pc = "download"

\* the page gets a response: the callback runs up to `await response.json()`
\* (`await clone.text()` in the injected script) or returns at once
Respond ==
    /\ variant # "direct"
    /\ pc \in {"capture", "capture2", "scroll", "scroll2"}
    /\ inflight = NoEvent
    /\ Len(api_responses) < MaxResponses
    /\ \E ev \in Events :
          inflight' = IF Awaits(ev) THEN ev ELSE inflight
    /\ UNCHANGED <<variant, probe_res, pc, fault, probe_i, working_endpoints, endpoint,
                   page, requests, stalled, api_responses, cursor, seen_ids, observed,
                   dom_images, all_images, metadata, i, success, failed,
                   previous_count, no_new_count, scrolls, captured_count, asked, files>>

\* the body is there: the callback goes on and appends the response, whole,
\* or drops it
Resume ==
    /\ variant # "direct"
    /\ Listening
    /\ inflight # NoEvent
    /\ api_responses' =
          IF Captures(inflight) THEN Record(api_responses, inflight.body)
          ELSE api_responses
    /\ inflight' = NoEvent
    /\ UNCHANGED <<variant, probe_res, pc, fault, probe_i, working_endpoints, endpoint,
                   page, requests, stalled, cursor, seen_ids, observed,
                   dom_images, all_images, metadata, i, success, failed,
                   previous_count, no_new_count, scrolls, captured_count, asked, files>>

(***************************************************************************)
(* Building the catalog from the captured responses.                       *)
(***************************************************************************)
Extractor(data) ==
    CASE variant = "browser" -> _find_images_recursive(data, 0)
      [] variant = "local"   -> _find_images(data, 0)
      [] OTHER               -> find_images_recursive(data, 0)

\* the records the loops over api_responses meet, in order
Stream == Concat([n \in 1..Len(api_responses) |-> Extractor(api_responses[n])])

\* the test of lines 63-64 without its `img_id not in seen_ids` half
BrowserAbsorbsWithoutSeen(img, seen) == Truthy(BrowserKey(img))

\* download_browser.py, lines 63-64
BrowserAbsorbs(img, seen) ==
    Truthy(BrowserKey(img)) /\ BrowserKey(img) \notin seen

\* the test of line 95 without the `seen` set
LocalAbsorbsWithoutSeen(img, where, seen) == TRUE

\* download_local.py, lines 94-95
LocalAbsorbs(img, where, seen) == LocalKey(img, where) \notin seen

\* download_stealth.py, lines 206-207
StealthAbsorbs(img, seen) ==
    Truthy(StealthKey(img)) /\ StealthKey(img) \notin seen

AbsorbKey(img, where) ==
    CASE variant = "browser" -> BrowserKey(img)
      [] variant = "local"   -> LocalKey(img, where)
      [] OTHER               -> StealthKey(img)

Absorbs(img, where, seen) ==
    CASE variant = "browser" -> BrowserAbsorbs(img, seen)
      [] variant = "local"   -> LocalAbsorbs(img, where, seen)
      [] OTHER               -> StealthAbsorbs(img, seen)

\* a catalog that takes a kept record at its front instead of its end
KeepInFront(catalog, img) == <<img>> \o catalog

\* the catalog after a record that is kept
Keep(catalog, img) == Append(catalog, img)

\* extract_images_from_responses over a whole list of responses: what the
\* loops of Absorb have kept after the first n records of `stream`
RECURSIVE Scan(_, _)
Scan(stream, n) ==
    IF n = 0 THEN [seen |-> {}, catalog |-> <<>>]
    ELSE LET before == Scan(stream, n - 1)
         IN  IF Absorbs(stream[n], n, before.seen)
             THEN [seen |-> before.seen \cup {AbsorbKey(stream[n], n)},
                   catalog |-> Keep(before.catalog, stream[n])]
             ELSE before

StreamOf(responses) ==
    Concat([n \in 1..Len(responses) |-> Extractor(responses[n])])

\* the catalog that would be built from `responses`
CatalogOf(responses) ==
    Scan(StreamOf(responses), Len(StreamOf(responses))).catalog

(***************************************************************************)
(* The scroll loops: download_browser.py lines 184-200, download_local.py  *)
(* scroll_and_capture, download_stealth.py lines 147-178.                  *)
(***************************************************************************)
BrowserStallThreshold == 5

LocalStallThreshold == 5

StealthStallThreshold == 8

max_scrolls == 100

\* document.body.scrollHeight takes the values 1..MaxHeight
MaxHeight == 2

StallThreshold ==
    CASE variant = "browser" -> BrowserStallThreshold
      [] variant = "local"   -> LocalStallThreshold
      [] OTHER               -> StealthStallThreshold

\* the loop condition: `while no_new_count < 5`, `for i in range(max_scrolls)`
\* with its `break`, `while stale_count < 8`
LoopContinues ==
    /\ no_new_count < StallThreshold
    /\ variant = "local" => scrolls < max_scrolls

\* what one pass of the loop compares with the value of the pass before: the
\* number of captured responses, the number of records found in them
\* (duplicates included), the height of the page (which never shrinks)
Readings ==
    CASE variant = "browser" -> {Len(api_responses)}
      [] variant = "local"   -> {Len(Stream)}
      [] OTHER               -> {h \in 1..MaxHeight : h >= previous_count}

\* the script reaches its scroll loop. download_browser.py scrolls only if a
\* response has been captured by then (line 184).
StartScroll ==
    /\ variant # "direct"
    /\ pc \in {"capture", "capture2"}
    /\ variant = "browser" => api_responses # <<>>
    /\ pc' = IF pc = "capture" THEN "scroll" ELSE "scroll2"
    /\ previous_count' = 0
    /\ no_new_count' = 0
    /\ scrolls' = 0
    /\ UNCHANGED <<variant, probe_res, fault, probe_i, working_endpoints, endpoint,
                   page, requests, stalled, api_responses, inflight, captured_count,
                   cursor, seen_ids, observed, dom_images, all_images, metadata,
                   i, success, failed, asked, files>>

\* one pass of the scroll loop
Sample ==
    /\ variant # "direct"
    /\ pc \in {"scroll", "scroll2"}
    /\ LoopContinues
    /\ \E cur \in Readings :
          /\ no_new_count' = IF cur = previous_count THEN no_new_count + 1 ELSE 0
          /\ previous_count' = cur
    /\ scrolls' = IF variant = "local" THEN scrolls + 1 ELSE scrolls
    /\ captured_count' = IF variant = "stealth" THEN Len(api_responses)
                         ELSE captured_count
    /\ UNCHANGED <<variant, probe_res, pc, fault, probe_i, working_endpoints, endpoint,
                   page, requests, stalled, api_responses, inflight,
                   cursor, seen_ids, observed, dom_images, all_images, metadata,
                   i, success, failed, asked, files>>

\* the scroll loop is over (download_browser.py: or was skipped) and
\* extract_images_from_responses / extract_all_images is called, or the
\* stealth script reads window.__ideo_captured once (line 182) and reaches
\* line 199: the scan starts with an empty `seen`
BeginExtract ==
    /\ variant # "direct"
    /\ \/ pc \in {"scroll", "scroll2"} /\ ~LoopContinues
       \/ variant = "browser" /\ pc = "capture" /\ api_responses = <<>>
    /\ pc' = IF pc \in {"capture", "scroll"} THEN "extract" ELSE "extract2"
    /\ cursor' = 1
    /\ seen_ids' = {}
    /\ inflight' = IF variant = "stealth" THEN NoEvent ELSE inflight
    \* the counters of the loop are not read after it
    /\ previous_count' = 0 /\ no_new_count' = 0 /\ scrolls' = 0
    /\ captured_count' = 0
    /\ UNCHANGED <<variant, probe_res, fault, probe_i, working_endpoints, endpoint,
                   page, requests, stalled, api_responses, observed, dom_images,
                   all_images, metadata, i, success, failed, asked, files>>

\* one pass of the inner loop: `for img in images`
Absorb ==
    /\ variant # "direct"
    /\ pc \in {"extract", "extract2"}
    /\ cursor <= Len(Stream)
    /\ IF Absorbs(Stream[cursor], cursor, seen_ids)
       THEN /\ seen_ids' = seen_ids \cup {AbsorbKey(Stream[cursor], cursor)}
            /\ all_images' = Keep(all_images, Stream[cursor])
       ELSE UNCHANGED <<seen_ids, all_images>>
    /\ observed' = Append(observed, Stream[cursor])
    /\ cursor' = cursor + 1
    /\ UNCHANGED <<variant, probe_res, pc, fault, probe_i, working_endpoints, endpoint, page,
                   requests, stalled, api_responses, dom_images, metadata,
                   i, success, failed,
                   inflight, previous_count, no_new_count, scrolls,
                   captured_count, asked, files>>

\* download_browser.py, run, lines 234-271
BrowserFinishExtract ==
    /\ variant = "browser"
    /\ pc = "extract"
    /\ cursor > Len(Stream)
    /\ IF all_images # <<>>
       THEN pc' = "download" /\ metadata' = Written(all_images)
       ELSE pc' = "done" /\ metadata' = metadata
    /\ UNCHANGED <<variant, probe_res, fault, probe_i, working_endpoints, endpoint, page, requests,
                   stalled, api_responses, cursor, seen_ids, observed, dom_images,
                   all_images, i, success, failed,
                   inflight, previous_count, no_new_count, scrolls,
                   captured_count, asked, files>>

\* download_local.py, run_headed, lines 225-246: with no image found the user
\* is asked to navigate and the page is scanned once more; metadata.json is
\* written only after the first scan
LocalFinishExtract ==
    /\ variant = "local"
    /\ pc \in {"extract", "extract2"}
    /\ cursor > Len(Stream)
    /\ IF all_images # <<>>
       THEN /\ pc' = "download"
            /\ metadata' = IF pc = "extract" THEN Written(all_images) ELSE metadata
       ELSE /\ pc' = IF pc = "extract" THEN "capture2" ELSE "done"
            /\ metadata' = metadata
    /\ UNCHANGED <<variant, probe_res, fault, probe_i, working_endpoints, endpoint, page, requests,
                   stalled, api_responses, cursor, seen_ids, observed, dom_images,
                   all_images, i, success, failed,
                   inflight, previous_count, no_new_count, scrolls,
                   captured_count, asked, files>>

\* a record scrape_all_images returns
DomRecord(url, alt) ==
    JDict(<<"url", "alt", "prompt", "width", "height">>,
          <<JStr(url), JStr(alt), JStr(alt), JNum("512"), JNum("512")>>)

DZ == DomRecord("https://cdn.ideogram.ai/gen/z.png", "fox")

\* an image whose URL carries response id "a"
DA == DomRecord("https://cdn.ideogram.ai/gen/a_thumb.png?w=100", "")

DomLists == {<<>>, <<DZ>>, <<DA, DZ>>}

\* `rid in url`: the ids are opaque tokens, this says which URL carries which
UrlMentions(url, rid) ==
    url.s = "https://cdn.ideogram.ai/gen/a_thumb.png?w=100" /\ rid.s = "a"

\* download_stealth.py, lines 219-229
RECURSIVE DomOnly(_, _)
DomOnly(dom, api_images) ==
    IF dom = <<>> THEN <<>>
    ELSE (IF \E n \in 1..Len(api_images) :
                /\ Truthy(Get(api_images[n], "response_id"))
                /\ UrlMentions(GetOr(Head(dom), "url", JStr("")),
                               Get(api_images[n], "response_id"))
          THEN <<>> ELSE <<Head(dom)>>)
         \o DomOnly(Tail(dom), api_images)

\* download_stealth.py, main, lines 211-250
StealthMergeDom ==
    /\ variant = "stealth"
    /\ pc = "extract"
    /\ cursor > Len(Stream)
    /\ \E dom \in DomLists :
          /\ dom_images' = dom
          /\ all_images' = all_images \o DomOnly(dom, all_images)
          /\ observed' = observed \o dom
    /\ IF all_images' # <<>>
       THEN pc' = "download" /\ metadata' = Written(all_images')
       ELSE pc' = "done" /\ metadata' = metadata
    /\ UNCHANGED <<variant, probe_res, fault, probe_i, working_endpoints, endpoint, page, requests,
                   stalled, api_responses, cursor, seen_ids, i, success, failed,
                   inflight, previous_count, no_new_count, scrolls,
                   captured_count, asked, files>>

(***************************************************************************)
(* The download loops of the browser variants.                             *)
(***************************************************************************)
\* lines 282-289 of download_browser.py, 132-138 of download_local.py
BrowserUrl(img) ==
    IF Truthy(PyOr(Get(img, "response_id"), Get(img, "id")))
    THEN DirectUrl(PyOr(Get(img, "response_id"), Get(img, "id")))
    ELSE PyOr(PyOr(Get(img, "url"), Get(img, "image_url")), Get(img, "thumbnail_url"))

\* a request page.request.get(url) answers; one with a URL that is no string raises
Answered(url, res) == IsStr(url) /\ res.kind = "resp"

\* download_browser.py, download_single: TRUE when the file was written.
\* res1 answers the first request, res2 the thumbnail fallback.
download_single(img, res1, res2) ==
    /\ Truthy(BrowserUrl(img))
    /\ Answered(BrowserUrl(img), res1)
    /\ IF res1.status = 200 THEN TRUE
       ELSE /\ Truthy(Get(img, "thumbnail_url"))
            /\ Get(img, "thumbnail_url") # BrowserUrl(img)
            /\ Answered(Get(img, "thumbnail_url"), res2)
            /\ res2.status = 200
    /\ IsStr(GetOr(img, "prompt", JStr("unknown")))

\* download_local.py, download_images, lines 131-173: TRUE when success += 1
download_images_pass(img, res1, res2) ==
    /\ Truthy(BrowserUrl(img))
    /\ Answered(BrowserUrl(img), res1)
    /\ IF res1.status = 200 THEN TRUE
       ELSE /\ Truthy(Get(img, "thumbnail_url"))
            /\ Answered(Get(img, "thumbnail_url"), res2)
            /\ res2.status = 200
    /\ IsStr(GetOr(img, "prompt", JStr("untitled")))

\* `thumb and thumb != url` of download_browser.py, `thumb` of download_local.py
TriesThumb(v, thumb, url) ==
    Truthy(thumb) /\ (v = "browser" => thumb # url)

\* download_single (download_browser.py, lines 278-333) and one pass of the
\* loop of download_images (download_local.py, lines 130-173): the requests
\* sent, and the file written when the pass counts a success; an exception
\* anywhere in it is caught and counts as a failure
browser_pass(v, img, index, res1, res2) ==
    LET url == BrowserUrl(img)
        thumb == Get(img, "thumbnail_url")
        prompt == GetOr(img, "prompt",
                        IF v = "browser" THEN JStr("unknown") ELSE JStr("untitled"))
        sent ==
            IF ~Truthy(url) \/ ~IsStr(url) THEN <<>>
            ELSE IF /\ res1.kind = "resp"
                    /\ res1.status # 200
                    /\ TriesThumb(v, thumb, url)
                    /\ IsStr(thumb)
                 THEN <<Ask(url, res1), Ask(thumb, res2)>>
                 ELSE <<Ask(url, res1)>>
        ok == IF v = "browser" THEN download_single(img, res1, res2)
              ELSE download_images_pass(img, res1, res2)
    IN  IF ok
        THEN Outcome(TRUE, sent,
                     FileOf(FileName(index, safe_prompt(prompt),
                                     ExtOf(sent[Len(sent)].res.ctype)),
                            sent[Len(sent)].res),
                     FALSE)
        ELSE Outcome(FALSE, sent, NoFile, FALSE)

\* one pass of the loop over images, download_browser.py lines 249-258 and
\* download_local.py lines 130-173
BrowserDownload ==
    /\ variant \in {"browser", "local"}
    /\ pc = "download"
    /\ i < Len(all_images)
    /\ \E res1, res2 \in ImageResults :
          \E out \in {browser_pass(variant, all_images[i + 1], i, res1, res2)} :
              /\ IF out.ok
                 THEN success' = success + 1 /\ failed' = failed
                 ELSE failed' = failed + 1 /\ success' = success
              /\ asked' = out.asked
              /\ files' = WriteFile(files, out.file)
    /\ i' = i + 1
    /\ pc' = IF i + 1 = Len(all_images) THEN "done" ELSE pc
    /\ all_images' = CatalogAfterPass(all_images, i)
    /\ UNCHANGED <<variant, probe_res, fault, probe_i, working_endpoints, endpoint, page, requests,
                   stalled, api_responses, cursor, seen_ids, observed, dom_images,
                   metadata,
                   inflight, previous_count, no_new_count, scrolls,
                   captured_count>>

(***************************************************************************)
(* download_stealth.py: the download loop.                                 *)
(***************************************************************************)
\* `'thumbnail' in url or '_thumb' in url or 'small' in url`
HasThumbWord(url) == url.s = "https://cdn.ideogram.ai/gen/a_thumb.png?w=100"

\* re.sub(r'[?&](w|h|width|height|size|quality)=[^&]*', '', url)
StripSizeParams(url) ==
    CASE url.s = "https://cdn.ideogram.ai/gen/a_thumb.png?w=100"
           -> JStr("https://cdn.ideogram.ai/gen/a_thumb.png")
      [] url.s = "https://x/img?w=100" -> JStr("https://x/img")
      [] OTHER -> url

\* get_best_url, lines 364-373: the first of the URL fields that is set
RECURSIVE FirstUrlField(_, _)
FirstUrlField(img, keys) ==
    IF keys = <<>> THEN JNull
    ELSE IF HasKey(img, Head(keys)) /\ Truthy(Get(img, Head(keys)))
         THEN IF HasThumbWord(Get(img, Head(keys)))
              THEN StripSizeParams(Get(img, Head(keys)))
              ELSE Get(img, Head(keys))
         ELSE FirstUrlField(img, Tail(keys))

get_best_url(img) ==
    IF IsDict(img)
    THEN IF Truthy(PyOr(Get(img, "response_id"), Get(img, "id")))
         THEN DirectUrl(PyOr(Get(img, "response_id"), Get(img, "id")))
         ELSE FirstUrlField(img, <<"url", "image_url", "src", "thumbnail_url">>)
    ELSE IF IsStr(img) THEN img ELSE JNull

MinImageBytes == 1000

\* download_image, lines 297-330
stealth_download_image(res) ==
    /\ res.kind = "resp"
    /\ res.status = 200
    /\ res.size > 0
    /\ res.size > MinImageBytes

\* line 261
StealthPrompt(img) ==
    IF IsDict(img)
    THEN PyOr(PyOr(GetOr(img, "prompt", JStr("")), GetOr(img, "alt", JStr(""))),
              JStr(""))
    ELSE JStr("")

\* line 271
StealthThumb(img) ==
    IF IsDict(img)
    THEN PyOr(Get(img, "thumbnail_url"), GetOr(img, "url", JStr("")))
    ELSE JStr("")

\* line 262: prompt[:60] and re.sub raise on a prompt that is no string;
\* nothing catches it
PromptRaises(img) == ~IsStr(StealthPrompt(img))

\* lines 266-279: TRUE when success += 1
StealthPassOk(img, res1, res2) ==
    \/ stealth_download_image(res1)
    \/ /\ Truthy(StealthThumb(img))
       /\ StealthThumb(img) # get_best_url(img)
       /\ stealth_download_image(res2)

\* line 262: ... or 'image'
StealthSlug(img) ==
    IF safe_prompt(StealthPrompt(img)) = <<>>
    THEN <<"i", "m", "a", "g", "e">>
    ELSE safe_prompt(StealthPrompt(img))

\* main, lines 254-279: one pass of the loop over all_images
stealth_pass(img, index, res1, res2) ==
    LET url == get_best_url(img)
        thumb == StealthThumb(img)
        name(res) == FileName(index, StealthSlug(img), StealthExt(res.ctype))
        first == <<Ask(url, res1)>>
        both == <<Ask(url, res1), Ask(thumb, res2)>>
    IN  IF ~Truthy(url) THEN Outcome(FALSE, <<>>, NoFile, FALSE)
        ELSE IF PromptRaises(img) THEN Outcome(FALSE, <<>>, NoFile, TRUE)
        ELSE IF stealth_download_image(res1)
             THEN Outcome(TRUE, first, FileOf(name(res1), res1), FALSE)
             ELSE IF Truthy(thumb) /\ thumb # url
                  THEN Outcome(StealthPassOk(img, res1, res2), both,
                               IF stealth_download_image(res2)
                               THEN FileOf(name(res2), res2) ELSE NoFile,
                               FALSE)
                  ELSE Outcome(FALSE, first, NoFile, FALSE)

\* the pass of the script that runs
Pass(v, img, index, res1, res2) ==
    CASE v = "direct"  -> download_image_pass(img, index, res1)
      [] v = "stealth" -> stealth_pass(img, index, res1, res2)
      [] OTHER         -> browser_pass(v, img, index, res1, res2)

\* main, lines 253-284: one pass of the loop over all_images
StealthDownload ==
    /\ variant = "stealth"
    /\ pc = "download"
    /\ i < Len(all_images)
    /\ \E res1, res2 \in ImageResults :
          \E out \in {stealth_pass(all_images[i + 1], i, res1, res2)} :
              /\ IF out.ok
                 THEN success' = success + 1 /\ failed' = failed
                 ELSE IF out.raised
                      THEN UNCHANGED <<success, failed>>
                      ELSE failed' = failed + 1 /\ success' = success
              /\ asked' = out.asked
              /\ files' = WriteFile(files, out.file)
              /\ IF out.raised
                 THEN pc' = "crashed" /\ fault' = "prompt[:60] raised" /\ i' = i
                 ELSE /\ pc' = IF i + 1 = Len(all_images) THEN "done" ELSE pc
                      /\ i' = i + 1
                      /\ fault' = fault
    /\ all_images' = CatalogAfterPass(all_images, i)
    /\ UNCHANGED <<variant, probe_res, probe_i, working_endpoints, endpoint, page, requests,
                   stalled, api_responses, cursor, seen_ids, observed, dom_images,
                   metadata,
                   inflight, previous_count, no_new_count, scrolls,
                   captured_count>>

Next ==
    \/ Probe
    \/ ChooseEndpoint
    \/ FetchPreselected
    \/ FetchPage
    \/ DirectDownload
    \/ NeverAnswered
    \/ Respond
    \/ Resume
    \/ StartScroll
    \/ Sample
    \/ BeginExtract
    \/ Absorb
    \/ BrowserFinishExtract
    \/ LocalFinishExtract
    \/ StealthMergeDom
    \/ BrowserDownload
    \/ StealthDownload

Spec == Init /\ [][Next]_vars

(***************************************************************************)
(* The extractors on their own: each is applied once to a payload.         *)
(***************************************************************************)
\* the deepest nesting of the payloads below
MaxNesting == 12

\* rec inside k + 1 nested lists: [[...[rec]...]]
RECURSIVE DeepList(_, _)
DeepList(k, rec) ==
    IF k = 0 THEN JList(<<rec>>) ELSE JList(<<DeepList(k - 1, rec)>>)

\* [rec] below k + 1 nested dicts: {"x": {"x": ... {"x": [rec]}}}
RECURSIVE DeepDict(_, _)
DeepDict(k, rec) ==
    IF k = 0 THEN JDict(<<"x">>, <<JList(<<rec>>)>>)
    ELSE JDict(<<"x">>, <<DeepDict(k - 1, rec)>>)

\* a pagination cursor: a bare id
Cursor == JDict(<<"id">>, <<JStr("n1")>>)

\* id with a descriptive key, and no other key
EI == JDict(<<"id", "prompt">>, <<JStr("b"), JStr("eel")>>)

\* a record that holds records
Child == JDict(<<"response_id", "prompt">>, <<JStr("v"), JStr("kid")>>)

Parent ==
    JDict(<<"response_id", "prompt", "variants">>,
          <<JStr("r"), JStr("top"), JList(<<Child>>)>>)

Payloads ==
    Bodies
    \cup {JStr("ok"), JNum("7"), JList(<<JNum("7"), JStr("ok"), JNull>>),
          JList(<<Cursor>>), JList(<<EI>>), JList(<<EB>>),
          JDict(<<"item">>, <<EI>>), JDict(<<"item">>, <<EA1>>),
          Parent, JList(<<Parent>>), JDict(<<"result">>, <<Parent>>)}
    \cup {DeepList(k, EA1) : k \in 0..MaxNesting}
    \cup {DeepDict(k, EA1) : k \in 0..MaxNesting}

ExtractorOf(v, data) ==
    CASE v = "direct"  -> _extract_images(data)
      [] v = "browser" -> _find_images_recursive(data, 0)
      [] v = "local"   -> _find_images(data, 0)
      [] OTHER         -> find_images_recursive(data, 0)

InitExtract ==
    /\ variant \in Variants
    /\ pc = "payload"
    /\ api_responses \in {<<p>> : p \in Payloads}
    /\ fault = ""
    /\ probe_i = 1
    /\ probe_res = NoResponse
    /\ working_endpoints = <<>>
    /\ endpoint = NoEndpoint
    /\ page = 0
    /\ requests = <<>>
    /\ stalled = FALSE
    /\ inflight = NoEvent
    /\ previous_count = 0
    /\ no_new_count = 0
    /\ scrolls = 0
    /\ captured_count = 0
    /\ cursor = 1
    /\ seen_ids = {}
    /\ observed = <<>>
    /\ dom_images = <<>>
    /\ all_images = <<>>
    /\ metadata = NotWritten
    /\ i = 0
    /\ success = 0
    /\ failed = 0
    /\ asked = <<>>
    /\ files = {}

\* the extractor of the script is called on the payload, and once more on the
\* same payload; `observed` is the list it returns, `cursor` the number of
\* the next call
Extract ==
    /\ pc \in {"payload", "extracted"}
    /\ cursor <= 2
    /\ pc' = "extracted"
    /\ observed' = ExtractorOf(variant, api_responses[1])
    /\ cursor' = cursor + 1
    /\ UNCHANGED <<variant, probe_res, fault, probe_i, working_endpoints, endpoint,
                   page, requests, stalled, api_responses, inflight, previous_count,
                   no_new_count, scrolls, captured_count, seen_ids,
                   dom_images, all_images, metadata, i, success, failed, asked, files>>

NextExtract == Extract

ExtractSpec == InitExtract /\ [][NextExtract]_vars

(***************************************************************************)
(* One pass of a download loop, on every kind of record a catalog can hold *)
(* and at small and large positions.                                       *)
(***************************************************************************)
\* the example of the specification: an identity and a thumbnail
IX == JDict(<<"response_id", "thumbnail_url">>,
            <<JStr("xyz"), JStr("https://x/img?w=100")>>)

\* an identity and a full-resolution URL
IA == JDict(<<"response_id", "url", "prompt">>,
            <<JStr("a"), JStr("https://x/u.png"), JStr("cat")>>)

\* an empty prompt
IE == JDict(<<"response_id", "prompt">>, <<JStr("d"), JStr("")>>)

\* no identity and no URL
IQ == JDict(<<"request_id", "prompt">>, <<JStr("q"), JStr("../a/b")>>)

\* no identity, a URL that is null
IL == JDict(<<"url", "prompt">>, <<JNull, JStr(" a.b c\\d ")>>)

\* no identity, a URL that is not a string
I7 == JDict(<<"request_id", "url", "prompt">>, <<JStr("q"), JNum("7"), JStr("cat")>>)

\* no identity, a thumbnail only
IT == JDict(<<"thumbnail_url", "prompt">>,
            <<JStr("https://cdn.ideogram.ai/gen/a_thumb.png?w=100"), JStr("long")>>)

\* no identity, a URL with a path that needs sanitising in the prompt
IU == JDict(<<"request_id", "url", "prompt">>,
            <<JStr("q"), JStr("https://x/u.png"), JStr("../a/b")>>)

Images ==
    {IX, IA, IE, IQ, IL, I7, IT, IU, EA1, EB, EU, EN, DZ, DA,
     JNum("7"), JStr("https://x/u.png")}

\* the records the catalog of a script can hold: download.py keeps every
\* element of a list, the others what their extractor returns and their
\* seen-test lets through, download_stealth.py also what the DOM gave
Cataloged(v, img) ==
    CASE v = "direct"  -> TRUE
      [] v = "browser" -> /\ IsDict(img)
                          /\ _find_images_recursive(JList(<<img>>), 0) = <<img>>
                          /\ Truthy(BrowserKey(img))
      [] v = "local"   -> IsDict(img) /\ _find_images(JList(<<img>>), 0) = <<img>>
      [] OTHER         -> \/ /\ IsDict(img)
                             /\ find_images_recursive(JList(<<img>>), 0) = <<img>>
                             /\ Truthy(StealthKey(img))
                          \/ img \in {DZ, DA}

\* positions in the catalog: enumerate(images)
Indices == {0, 1, 9999, 10000, 10001}

InitDownload ==
    /\ variant \in Variants
    /\ pc = "download"
    /\ all_images \in {<<img>> : img \in {e \in Images : Cataloged(variant, e)}}
    /\ i \in Indices
    /\ fault = ""
    /\ probe_i = 1
    /\ probe_res = NoResponse
    /\ working_endpoints = <<>>
    /\ endpoint = NoEndpoint
    /\ page = 0
    /\ requests = <<>>
    /\ stalled = FALSE
    /\ api_responses = <<>>
    /\ inflight = NoEvent
    /\ previous_count = 0
    /\ no_new_count = 0
    /\ scrolls = 0
    /\ captured_count = 0
    /\ cursor = 1
    /\ seen_ids = {}
    /\ observed = <<>>
    /\ dom_images = <<>>
    /\ metadata = Written(all_images)
    /\ success = 0
    /\ failed = 0
    /\ asked = <<>>
    /\ files = {}

\* the body of the download loop of the script, for the record all_images[1]
\* at position i
DownloadOne ==
    /\ pc = "download"
    /\ \E res1, res2 \in DownloadResults :
          \E out \in {Pass(variant, all_images[1], i, res1, res2)} :
              /\ IF out.ok
                 THEN success' = success + 1 /\ failed' = failed
                 ELSE IF out.raised
                      THEN UNCHANGED <<success, failed>>
                      ELSE failed' = failed + 1 /\ success' = success
              /\ asked' = out.asked
              /\ files' = WriteFile(files, out.file)
              /\ IF out.raised
                 THEN pc' = "crashed" /\ fault' = "prompt[:60] raised"
                 ELSE pc' = "downloaded" /\ fault' = fault
    /\ all_images' = CatalogAfterPass(all_images, 0)
    /\ UNCHANGED <<variant, probe_res, probe_i, working_endpoints, endpoint, page, requests,
                   stalled, api_responses, cursor, seen_ids, observed, dom_images,
                   metadata, i,
                   inflight, previous_count, no_new_count, scrolls,
                   captured_count>>

NextDownload == DownloadOne

DownloadSpec == InitDownload /\ [][NextDownload]_vars

(***************************************************************************)
(* The catalog methods on their own: extract_images_from_responses          *)
(* (download_browser.py) and extract_all_images (download_local.py) are     *)
(* called on a downloader object, between captures of further responses.    *)
(***************************************************************************)
MaxCalls == 2

\* one call over `stream`, the records found in self.api_responses: `seen` is
\* a new empty set in each call (download_browser.py line 57,
\* download_local.py line 91) and the records kept are appended to
\* self.all_image_data, which is created once, in __init__
RECURSIVE ScanInto(_, _, _)
ScanInto(catalog, stream, n) ==
    IF n = 0 THEN [seen |-> {}, catalog |-> catalog]
    ELSE LET before == ScanInto(catalog, stream, n - 1)
         IN  IF Absorbs(stream[n], n, before.seen)
             THEN [seen |-> before.seen \cup {AbsorbKey(stream[n], n)},
                   catalog |-> Keep(before.catalog, stream[n])]
             ELSE before

InitCatalog ==
    /\ variant \in {"browser", "local"}
    /\ pc = "catalog"
    /\ api_responses = <<>>
    /\ fault = ""
    /\ probe_i = 1
    /\ probe_res = NoResponse
    /\ working_endpoints = <<>>
    /\ endpoint = NoEndpoint
    /\ page = 0
    /\ requests = <<>>
    /\ stalled = FALSE
    /\ inflight = NoEvent
    /\ previous_count = 0
    /\ no_new_count = 0
    /\ scrolls = 0
    /\ captured_count = 0
    /\ cursor = 0
    /\ seen_ids = {}
    /\ observed = <<>>
    /\ dom_images = <<>>
    /\ all_images = <<>>
    /\ metadata = NotWritten
    /\ i = 0
    /\ success = 0
    /\ failed = 0
    /\ asked = <<>>
    /\ files = {}

\* intercept_response / on_response runs on one exchange of the page, from
\* its first test to the append
CaptureBody ==
    /\ pc = "catalog"
    /\ Len(api_responses) < MaxResponses
    /\ \E ev \in Events :
          /\ Captures(ev)
          /\ api_responses' = Record(api_responses, ev.body)
    /\ UNCHANGED <<variant, pc, fault, probe_i, probe_res, working_endpoints,
                   endpoint, page, requests, stalled, inflight, previous_count,
                   no_new_count, scrolls, captured_count, cursor, seen_ids,
                   observed, dom_images, all_images, metadata, i, success,
                   failed, asked, files>>

\* one whole call of the method; `cursor` counts the calls made and
\* `captured_count` is the number of responses the call has read
ExtractCall ==
    /\ pc = "catalog"
    /\ cursor < MaxCalls
    /\ \E out \in {ScanInto(all_images, Stream, Len(Stream))} :
          /\ all_images' = out.catalog
          /\ seen_ids' = out.seen
    /\ cursor' = cursor + 1
    /\ captured_count' = Len(api_responses)
    /\ UNCHANGED <<variant, pc, fault, probe_i, probe_res, working_endpoints,
                   endpoint, page, requests, stalled, api_responses, inflight,
                   previous_count, no_new_count, scrolls, observed, dom_images,
                   metadata, i, success, failed, asked, files>>

NextCatalog == CaptureBody \/ ExtractCall

CatalogSpec == InitCatalog /\ [][NextCatalog]_vars

(***************************************************************************)
(* Properties.                                                             *)
(***************************************************************************)
Records(recs) == {recs[n] : n \in 1..Len(recs)}

\* the first record of `recs` whose identity is `key`
FirstWithKey(recs, key) ==
    recs[CHOOSE n \in 1..Len(recs) :
            /\ IdentityKey(recs[n]) = key
            /\ \A m \in 1..(n - 1) : IdentityKey(recs[m]) # key]

\* the identities of `recs`, each once, in the order they first appear
RECURSIVE FirstKeys(_)
FirstKeys(recs) ==
    IF recs = <<>> THEN <<>>
    ELSE LET front == SubSeq(recs, 1, Len(recs) - 1)
             key == IdentityKey(recs[Len(recs)])
         IN  IF key = JNull \/ key \in Identities(front)
             THEN FirstKeys(front)
             ELSE Append(FirstKeys(front), key)

RECURSIVE IsSubsequence(_, _)
IsSubsequence(a, b) ==
    IF a = <<>> THEN TRUE
    ELSE IF b = <<>> THEN FALSE
         ELSE IF Head(a) = Head(b)
              THEN IsSubsequence(Tail(a), Tail(b))
              ELSE IsSubsequence(a, Tail(b))

IsPrefix(a, b) == Len(a) <= Len(b) /\ SubSeq(b, 1, Len(a)) = a

\* fetch_all_images was called with a pre-selected endpoint (no probing)
GivenEndpoint == pc = "crashed" /\ fault = "body referenced before assignment"

\* C1: in the paginating variant enumeration is over (no further page is
\* requested) once a page has added no new identity to the catalog, also when
\* that page was not empty and held only records already seen.
C1_ZeroNewPageEndsPagination ==
    (variant = "direct" /\ stalled) => pc # "paginate"

\* C2: pagination terminates on an endpoint that keeps answering 200 with
\* records it has already returned. Stated as the variant that bounds the
\* loop: while fetch_all_images is still paginating, every page fetched so
\* far has brought at least one record not returned before, so that an
\* endpoint with n distinct records is asked for at most n + 1 pages.
C2_EveryFetchedPageBroughtANewRecord ==
    (variant = "direct" /\ pc = "paginate")
        => Cardinality(Records(all_images)) >= page

\* C3: in every variant no two records of the catalog have the same
\* identity key.
C3_CatalogIdentitiesUnique ==
    \A m, n \in 1..Len(all_images) :
        (m < n /\ IdentityKey(all_images[m]) # JNull)
            => IdentityKey(all_images[m]) # IdentityKey(all_images[n])

\* C4: every record of the catalog has a non-empty identity taken from
\* response_id, or from id when response_id is absent; a record with neither
\* is never added (checked where the catalog is built from intercepted
\* responses, download_browser.py and download_local.py).
C4_CatalogRecordsHaveIdentity ==
    variant \in {"browser", "local"}
        => \A n \in 1..Len(all_images) : Truthy(IdentityKey(all_images[n]))

\* C5: absorbing is idempotent per identity (download_browser.py and
\* download_stealth.py): a record whose identity key is already in the catalog
\* leaves the catalog unchanged, and the catalog never holds an identity twice,
\* so that a record absorbed twice counts once.
C5_AbsorbIdempotent ==
    /\ [][(/\ variant \in {"browser", "stealth"}
           /\ pc = "extract"
           /\ cursor <= Len(Stream)
           /\ IdentityKey(Stream[cursor]) \in Identities(all_images))
          => all_images' = all_images]_vars
    /\ [](variant \in {"browser", "stealth"}
          => \A m, n \in 1..Len(all_images) :
                (m < n /\ IdentityKey(all_images[m]) # JNull)
                    => IdentityKey(all_images[m]) # IdentityKey(all_images[n]))

\* a record was met whose identity the catalog already held, and was dropped
C5_Witness ==
    /\ variant \in {"browser", "stealth"}
    /\ pc = "extract"
    /\ \E m, n \in 1..Len(observed) :
          /\ m < n
          /\ Truthy(IdentityKey(observed[m]))
          /\ IdentityKey(observed[m]) = IdentityKey(observed[n])
    /\ Cardinality(Identities(observed)) = Len(all_images)
    /\ Len(all_images) > 0

\* C6: first-seen wins (download_browser.py and download_local.py): the
\* catalog entry of an identity is the record observed first with that
\* identity, field for field, and a later record with the same identity
\* changes nothing of it.
C6_FirstSeenWins ==
    variant \in {"browser", "local"}
        => \A n \in 1..Len(all_images) :
              IdentityKey(all_images[n]) # JNull
                  => all_images[n] = FirstWithKey(observed, IdentityKey(all_images[n]))

\* {"response_id": "a", "prompt": "cat"} then {"response_id": "a", "prompt":
\* "cat2"} were observed and the catalog holds the one entry with "cat"
C6_Witness ==
    /\ variant \in {"browser", "local"}
    /\ observed = <<EA1, EA2>>
    /\ all_images = <<EA1>>
    /\ Get(all_images[1], "prompt") = JStr("cat")
    /\ pc = "download"

\* C7: the catalog is append-only and insertion-ordered: every step leaves
\* the old catalog a prefix of the new one, the records are in the order in
\* which they were observed, and its identities are in the order of their
\* first observation.
C7_AppendOnlyInsertionOrdered ==
    /\ [][IsPrefix(all_images, all_images')]_vars
    /\ [](IsSubsequence(all_images, observed))
    /\ [](FirstKeys(all_images)
            = SelectSeq(FirstKeys(observed),
                        LAMBDA key : key \in Identities(all_images)))

\* a catalog of several records, built over several absorptions with a
\* duplicate dropped in between
C7_Witness ==
    /\ Len(all_images) >= 3
    /\ Len(observed) > Len(all_images)
    /\ Cardinality(Identities(all_images)) >= 2

\* C8: a page-fetch error during pagination, a non-200 status or a 200 whose
\* body is not JSON, ends enumeration without raising: the run goes on to the
\* downloads (or ends with nothing to download).
C8_PageErrorEndsEnumerationQuietly ==
    (/\ variant = "direct"
     /\ Len(requests) > 0
     /\ pc # "paginate"
     /\ fault # "page request raised")
        => pc \in {"download", "done"}

\* C9: once the downloads have started the run is never aborted: it ends with
\* every entity of the catalog counted once, as a success or as a failure.
C9_EveryEntityGetsOneOutcome ==
    (metadata.written /\ pc # "download")
        => (pc = "done" /\ success + failed = Len(all_images))

\* C10: the k-th page request of fetch_all_images asks for page k, counting
\* from 0, whatever the shape of the endpoint.
C10_KthRequestAsksPageK ==
    variant = "direct"
        => \A n \in 1..Len(requests) : AskedPage(requests[n]) = n - 1

\* C11: after probing (a call with a pre-selected endpoint, which does not
\* probe, is the subject of C31), pagination uses the first verified
\* candidate, in candidate order; with no verified candidate the run goes straight to DONE
\* with an empty catalog, and no page request and no download is ever made.
C11_FirstVerifiedOrDone ==
    /\ [][(variant = "direct" /\ pc = "discover" /\ pc' \notin {"discover", "blocked"}
             /\ ~GivenEndpoint')
          => IF working_endpoints # <<>>
             THEN /\ pc' = "paginate"
                  /\ IsSubsequence(working_endpoints, endpoints_to_try)
                  /\ endpoint' = working_endpoints[1]
             ELSE /\ pc' = "done"
                  /\ endpoint' = NoEndpoint]_vars
    /\ []((variant = "direct" /\ endpoint = NoEndpoint)
          => /\ pc \in {"discover", "done", "blocked"}
             /\ requests = <<>> /\ all_images = <<>>
             /\ i = 0 /\ success = 0 /\ failed = 0
             /\ ~metadata.written)
    /\ [](variant = "direct"
          => \A n \in 1..Len(requests) : requests[n].url.path = endpoint.url.path)

\* the first candidate was not verified, two later ones were, and the pages
\* are asked from the earlier of the two
C11_Witness ==
    /\ variant = "direct"
    /\ pc = "paginate"
    /\ endpoint.url = endpoints_to_try[3].url
    /\ Len(requests) >= 2
    /\ \A n \in 1..Len(requests) : requests[n].url.path = "images/user"

\* C12: discover_api sends one request per candidate, in list order, and
\* never stops early or raises: whatever the answer to a probe is (a request
\* that gets no answer at all is the subject of C30, a call that is given its
\* endpoint and does not probe that of C31), the next candidate is
\* probed, the loop is left only after the last candidate, and the
\* list returned holds the verified candidates in candidate order.
C12_ProbesEveryCandidate ==
    /\ [][(variant = "direct" /\ pc = "discover" /\ pc' # "blocked"
             /\ ~GivenEndpoint'
             /\ probe_i <= Len(endpoints_to_try))
          => /\ probe_i' = probe_i + 1
             /\ probe_res'.kind # "none"
             /\ pc' = "discover" /\ fault' = ""
             /\ \/ working_endpoints' = working_endpoints
                \/ working_endpoints'
                     = Append(working_endpoints, endpoints_to_try[probe_i])]_vars
    /\ []((variant = "direct" /\ pc = "discover")
          => IsSubsequence(working_endpoints,
                           SubSeq(endpoints_to_try, 1, probe_i - 1)))
    /\ []((variant = "direct" /\ pc \notin {"discover", "blocked"} /\ ~GivenEndpoint)
          => probe_i = Len(endpoints_to_try) + 1)

\* the last probe raised in the transport after the first candidate had
\* failed and two others had been verified: the list is complete and ordered
C12_Witness ==
    /\ variant = "direct"
    /\ pc = "discover"
    /\ probe_i = Len(endpoints_to_try) + 1
    /\ probe_res = Raised
    /\ working_endpoints = <<endpoints_to_try[2], endpoints_to_try[10]>>

\* what the specification asks of a verified probe: status 200, a JSON
\* content type, and a body from which _extract_images gets a record
ExtractableAnswer(res) ==
    /\ res.kind = "resp"
    /\ res.status = 200
    /\ IsJsonType(res.ctype)
    /\ res.body # BadJson
    /\ _extract_images(res.body) # <<>>

\* C13: a probed candidate is put on the list of working endpoints if and
\* only if its answer is a 200 with a JSON content type and a body from which
\* the extractor gets at least one record.
C13_VerifiedIffExtractable ==
    (variant = "direct" /\ pc = "discover" /\ probe_res.kind # "none")
        => ((/\ working_endpoints # <<>>
             /\ working_endpoints[Len(working_endpoints)]
                  = endpoints_to_try[probe_i - 1])
            <=> ExtractableAnswer(probe_res))

\* the size the catalog would have if it were built now, and the size it
\* would have had at the previous pass of the scroll loop
CatalogSize == Len(CatalogOf(api_responses))

SizeAtLastSample ==
    CASE variant = "browser" ->
            Len(CatalogOf(SubSeq(api_responses, 1, previous_count)))
      [] variant = "local" -> Len(Scan(Stream, previous_count).catalog)
      [] OTHER ->
            Len(CatalogOf(SubSeq(api_responses, 1, captured_count)))

\* a step that is one pass of a scroll loop, the first pass (which has no
\* earlier reading to compare with) left aside
IsSample ==
    /\ variant # "direct"
    /\ pc \in {"scroll", "scroll2"}
    /\ previous_count > 0
    /\ pc' = pc
    /\ api_responses' = api_responses
    /\ inflight' = inflight

\* C14: the stall counter counts the consecutive samples in which the catalog
\* size did not grow: a sample in which the catalog grew sets it to zero, any
\* other sample adds one, and scrolling is left exactly when it has reached
\* the threshold.
C14_StallCounterCountsCatalogStalls ==
    /\ [][IsSample
          => no_new_count' = IF CatalogSize > SizeAtLastSample
                             THEN 0
                             ELSE no_new_count + 1]_vars
    /\ [][(variant # "direct" /\ pc \in {"scroll", "scroll2"} /\ pc' # pc)
          => no_new_count = StallThreshold]_vars

\* the feed has delivered a response since the previous pass of the loop
Delivered ==
    Len(api_responses) > (IF variant = "browser" THEN previous_count
                          ELSE captured_count)

\* C15: passive enumeration reaches DONE once the catalog has stopped
\* growing, whatever the feed goes on delivering. Stated as the variant of the
\* loop: every sample in which the feed has delivered something but the catalog
\* did not grow brings the counter one closer to the threshold, so that
\* `threshold` such samples end the loop.
C15_NoGrowthSampleCounts ==
    [][(IsSample /\ variant \in {"browser", "stealth"}
          /\ Delivered
          /\ CatalogSize = SizeAtLastSample)
       => no_new_count' > no_new_count]_vars

\* C16: in the passive variants a response whose status is not success or
\* whose content type is not JSON is never captured, so that it never
\* contributes a record to the catalog.
C16_OnlyJsonSuccessCaptured ==
    [][(variant # "direct" /\ StreamOf(api_responses') # StreamOf(api_responses))
       => (/\ inflight.status >= 200 /\ inflight.status < 300
           /\ IsJsonType(inflight.ctype))]_vars

\* C17: whatever the interleaving of the response callback with the scroll
\* loop, a response is in the captured data whole or not at all: every step
\* leaves api_responses alone or appends the whole body of the one response
\* whose callback resumed, no response is captured while the catalog is being
\* built, and the catalog is the one built from a prefix of the captured
\* responses.
C17_WholeObservations ==
    /\ [][\/ api_responses' = api_responses
          \/ /\ inflight # NoEvent
             /\ api_responses' = Append(api_responses, inflight.body)]_vars
    /\ [][(pc \in {"extract", "extract2"})
          => (api_responses' = api_responses)]_vars
    /\ [](\A n \in 1..Len(api_responses) : api_responses[n] \in Bodies)
    /\ []((variant \in {"browser", "local"} /\ pc \in {"download", "done"})
          => \E n \in 0..Len(api_responses) :
                all_images = CatalogOf(SubSeq(api_responses, 1, n)))

\* a callback is waiting for the body of a response while the scroll loop
\* has sampled twice since the last response was captured
C17_Witness ==
    /\ variant \in {"browser", "local"}
    /\ pc = "scroll"
    /\ inflight # NoEvent
    /\ Len(inflight.body.e) > 1
    /\ api_responses # <<>>
    /\ no_new_count >= 2

\* every mapping of a JSON value, the value itself included
RECURSIVE AllMaps(_)
AllMaps(v) ==
    IF v.t \in {"list", "dict"}
    THEN (IF IsDict(v) THEN {v} ELSE {})
         \cup UNION {AllMaps(v.e[n]) : n \in 1..Len(v.e)}
    ELSE {}

\* the mappings strictly inside a mapping
Inside(m) == UNION {AllMaps(m.e[n]) : n \in 1..Len(m.e)}

DescriptiveKeys == {"prompt", "url", "image_url", "thumbnail_url"}

\* the rule of the specification: response_id, or id with a descriptive key
Qualifies(m) ==
    /\ IsDict(m)
    /\ \/ HasKey(m, "response_id")
       \/ HasKey(m, "id") /\ AnyKey(m, DescriptiveKeys)

\* the mappings that rule emits from a payload: the qualifying ones that are
\* not inside another qualifying one
RECURSIVE Emits(_)
Emits(v) ==
    IF Qualifies(v) THEN {v}
    ELSE IF v.t \in {"list", "dict"}
         THEN UNION {Emits(v.e[n]) : n \in 1..Len(v.e)}
         ELSE {}

\* the payloads in which no record lies below the depth bounds
Shallow == Payloads \ ({DeepList(k, EA1) : k \in 0..MaxNesting}
                       \cup {DeepDict(k, EA1) : k \in 0..MaxNesting})

\* C18: the extractor emits a mapping if and only if it contains response_id,
\* or id together with a descriptive key; a mapping with a bare id or with no
\* identity-like key is never emitted, wherever it sits in the payload.
C18_EmitsExactlyQualifying ==
    (/\ pc = "extracted"
     /\ variant \in {"direct", "browser", "local"}
     /\ api_responses[1] \in Shallow)
        => Records(observed) = Emits(api_responses[1])

\* C19: the extractor does not descend into a mapping it has emitted: no
\* emitted mapping lies inside another emitted mapping, and no mapping is
\* emitted twice.
C19_NoDescentIntoEmitted ==
    (pc = "extracted" /\ variant \in {"browser", "local", "stealth"})
        => \A m, n \in 1..Len(observed) :
              m # n => /\ observed[m] # observed[n]
                       /\ observed[n] \notin Inside(observed[m])

MaxDepthOf(v) ==
    CASE v = "browser" -> BrowserMaxDepth
      [] v = "local"   -> LocalMaxDepth
      [] OTHER         -> StealthMaxDepth

\* C20: on every payload the extractor ends and returns a list; a record
\* whose list is nested deeper than max_depth is left out without an error,
\* one at max_depth or above it is found.
C20_DepthBounded ==
    (pc = "extracted" /\ variant \in {"browser", "local", "stealth"})
        => /\ \A n \in 1..Len(observed) : observed[n] \in AllMaps(api_responses[1])
           /\ \A k \in 0..MaxNesting :
                 /\ api_responses[1] = DeepList(k, EA1)
                      => observed = IF k <= MaxDepthOf(variant)
                                    THEN <<EA1>> ELSE <<>>
                 /\ api_responses[1] = DeepDict(k, EA1)
                      => observed = IF k + 1 <= MaxDepthOf(variant)
                                    THEN <<EA1>> ELSE <<>>

\* the record sits one list below the bound of download_browser.py and the
\* extractor has returned the empty list
C20_Witness ==
    /\ pc = "extracted"
    /\ variant = "browser"
    /\ api_responses[1] = DeepList(BrowserMaxDepth + 1, EA1)
    /\ observed = <<>>

\* the mappings of a JSON value in the order a depth-first walk first meets
\* them: a mapping before what it holds, children in their order
RECURSIVE PreOrder(_)
PreOrder(v) ==
    IF v.t \in {"list", "dict"}
    THEN LET RECURSIVE Walk(_)
             Walk(n) == IF n > Len(v.e) THEN <<>>
                        ELSE PreOrder(v.e[n]) \o Walk(n + 1)
         IN  (IF IsDict(v) THEN <<v>> ELSE <<>>) \o Walk(1)
    ELSE <<>>

Usable(img, key) == IsStr(Get(img, key)) /\ Truthy(Get(img, key))

\* the candidate URLs of an entity as the specification orders them: the
\* direct-access URL of its identity, the full-resolution fields, the
\* thumbnail without its size parameters
Candidates(img) ==
    IF IsStr(img) THEN <<img>>
    ELSE IF ~IsDict(img) THEN <<>>
    ELSE (IF Truthy(StealthKey(img)) THEN <<DirectUrl(StealthKey(img))>> ELSE <<>>)
         \o (IF Usable(img, "url") THEN <<Get(img, "url")>> ELSE <<>>)
         \o (IF Usable(img, "image_url") THEN <<Get(img, "image_url")>> ELSE <<>>)
         \o (IF Usable(img, "thumbnail_url")
             THEN <<StripSizeParams(Get(img, "thumbnail_url"))>> ELSE <<>>)

\* every request of the pass was answered, and no answer is a 200 with a body
\* under the minimum size
PlainAnswers ==
    \A n \in 1..Len(asked) :
        /\ asked[n].res.kind = "resp"
        /\ asked[n].res.status = 200 => asked[n].res.size > MinImageBytes

\* the prompt of the entity is a string, or the entity has none
PromptIsText(img) == IsDict(img) => IsStr(GetOr(img, "prompt", JStr("")))

\* C22: for one entity the candidate URLs are requested one after the other
\* until one answers 200; that response is written to disk and counted as the
\* success, and nothing is requested after it; a failure is recorded only
\* when every candidate has been tried. With a 404 on the first candidate and
\* a 200 of 50,000 bytes on the second the file holds those 50,000 bytes.
C22_CandidatesTriedUntilSuccess ==
    (/\ pc = "downloaded"
     /\ variant \in {"direct", "browser"}
     /\ PlainAnswers
     /\ PromptIsText(all_images[1]))
        => /\ \A n \in 1..(Len(asked) - 1) : asked[n].res.status # 200
           /\ IF asked # <<>> /\ asked[Len(asked)].res.status = 200
              THEN /\ success = 1
                   /\ \E f \in files : files = {f} /\ f.size = asked[Len(asked)].res.size
              ELSE /\ failed = 1
                   /\ files = {}
                   /\ Len(asked) = Len(Candidates(all_images[1]))

\* C23: in every variant a 200 response whose body is not larger than the
\* minimum size is never written as an image file and never counted as a
\* success.
C23_SmallBodyNeverWritten ==
    pc = "downloaded"
        => /\ \A f \in files : f.size > MinImageBytes
           /\ success = 1
                => \E n \in 1..Len(asked) : /\ asked[n].res.status = 200
                                            /\ asked[n].res.size > MinImageBytes

\* C24: for an entity with an identity the first URL requested is the
\* direct-access URL of that identity, and every later request is for one of
\* its other candidates in the form the specification gives them: url,
\* image_url, or the thumbnail without its size parameters. For
\* {"response_id": "xyz", "thumbnail_url": "https://x/img?w=100"} these are
\* the direct URL of xyz and then https://x/img.
C24_DirectFirstThenStrippedThumbnail ==
    (/\ pc = "downloaded"
     /\ variant = "stealth"
     /\ IsDict(all_images[1])
     /\ Truthy(StealthKey(all_images[1])))
        => \A n \in 1..Len(asked) :
              IF n = 1
              THEN asked[n].url = DirectUrl(StealthKey(all_images[1]))
              ELSE \E m \in 2..Len(Candidates(all_images[1])) :
                      asked[n].url = Candidates(all_images[1])[m]

\* an entity with nothing to resolve: neither a mapping nor a string, or a
\* mapping with no identity and no URL field that holds a non-empty string
Unresolvable(img) ==
    /\ ~IsStr(img)
    /\ IsDict(img) => /\ ~Truthy(StealthKey(img))
                      /\ \A key \in {"url", "image_url", "src", "thumbnail_url"} :
                            ~Usable(img, key)

\* C25: the pass over an entity with nothing to resolve ends without an
\* exception, sends no request, writes no file and counts exactly one failed
\* download.
C25_UnresolvableIsOneFailure ==
    (pc \in {"downloaded", "crashed"} /\ Unresolvable(all_images[1]))
        => /\ pc = "downloaded"
           /\ fault = ""
           /\ asked = <<>>
           /\ files = {}
           /\ success = 0
           /\ failed = 1

\* download.py has passed over an entity that is a number
C25_Witness ==
    /\ pc = "downloaded"
    /\ variant = "direct"
    /\ all_images[1] = JNum("7")
    /\ asked = <<>>
    /\ failed = 1

\* the names of the image files the script can write for the entity at
\* position j, whatever the entity and the answer
NamesAt(v, j) ==
    {Pass(v, e, j, r, r).file.name :
        e \in {img \in Images : Cataloged(v, img)},
        r \in {res \in DownloadResults : res.kind = "resp" /\ res.status = 200}}
    \ {<<>>}

\* C26: the name of a written image file is not the name of any file the
\* same script writes for an entity at another position, whatever the two
\* prompts are (equal, empty) and also for positions of 10000 and above.
C26_NamesDifferAcrossIndices ==
    pc = "downloaded"
        => \A f \in files : \A j \in Indices \ {i} : f.name \notin NamesAt(variant, j)

\* the file of the entity at position 10000 has been written
C26_Witness ==
    /\ pc = "downloaded"
    /\ i = 10000
    /\ all_images[1] = EA1
    /\ \E f \in files : f.name = <<"1", "0", "0", "0", "0", "_", "c", "a", "t", ".", "p", "n", "g">>

\* the characters of a name after its last dot
RECURSIVE AfterLastDot(_)
AfterLastDot(name) ==
    IF name = <<>> \/ name[Len(name)] = "." THEN <<>>
    ELSE Append(AfterLastDot(SubSeq(name, 1, Len(name) - 1)), name[Len(name)])

\* the extension the specification gives a content type
ExpectedExt(ctype) ==
    CASE ctype \in {"image/jpeg", "image/jpg"} -> <<"j", "p", "g">>
      [] ctype = "image/webp"                  -> <<"w", "e", "b", "p">>
      [] OTHER                                 -> <<"p", "n", "g">>

\* C27: in every variant the extension of a written image file is the one
\* of the content type of the response that supplied its bytes: jpg for
\* jpeg or jpg, webp for webp, png otherwise or without the header.
C27_ExtensionFollowsContentType ==
    pc = "downloaded"
        => \A f \in files : AfterLastDot(f.name) = ExpectedExt(f.ctype)

\* C28: whatever the prompt is (path separators, dots, other non-word
\* characters, more than 60 characters), the name of a written image file
\* holds no path separator and at most 60 characters of slug, so the file
\* lies directly in the output directory.
C28_SlugKeepsFileInDirectory ==
    pc = "downloaded"
        => \A f \in files :
              /\ \A n \in 1..Len(f.name) : f.name[n] \notin {"/", "\\"}
              /\ Len(f.name) <= Len(Format04d(i)) + 1 + 60 + 1 + Len(AfterLastDot(f.name))
              /\ SubSeq(f.name, 1, Len(Format04d(i)) + 1) = Format04d(i) \o <<"_">>

\* an image has been written for the prompt "../a/b"
C28_Witness ==
    /\ pc = "downloaded"
    /\ variant = "browser"
    /\ all_images[1] = IU
    /\ i = 1
    /\ \E f \in files : f.name = <<"0", "0", "0", "1", "_", "a", "b", ".", "p", "n", "g">>

\* C29: a run that has come to its end with an empty catalog has written
\* metadata.json, holding the empty list.
C29_EmptyRunWritesMetadata ==
    (pc = "done" /\ all_images = <<>>) => metadata = Written(<<>>)

\* C30: no run blocks forever on one request: a probe, page or download
\* request that is never answered ends in a timeout, and the script goes on.
C30_NoRequestBlocksForever == pc # "blocked"

\* C31: a call of fetch_all_images with a pre-selected endpoint issues no
\* probe, and its first request is the page-0 request for that endpoint, the
\* one a probed endpoint would get.
C31_PreselectedEndpointIsPaginated ==
    (variant = "direct" /\ probe_i = 1 /\ endpoint # NoEndpoint)
        => /\ requests # <<>>
           /\ requests[1] = PageRequest(endpoint, 0)

\* C32: from the first download request to the end of the run no step
\* changes the catalog: its length, its order and every record stay as
\* enumeration left them.
C32_DownloadLeavesCatalog ==
    [][(pc \in {"download", "done", "crashed", "blocked"})
          => (all_images' = all_images)]_vars

\* a browser run has downloaded one entity and failed on another
C32_Witness ==
    /\ variant = "browser"
    /\ pc = "done"
    /\ Len(all_images) >= 2
    /\ success >= 1
    /\ failed >= 1
    /\ files # {}

\* C33: every page request of fetch_all_images uses the HTTP method of the
\* probe that verified the chosen endpoint: POST for an endpoint verified by
\* a POST, with or without a body, and GET for one verified by a GET.
C33_PageRequestsKeepProbeMethod ==
    variant = "direct"
        => \A n \in 1..Len(requests) : requests[n].method = endpoint.method

\* C34: in every download loop success + failed = i once the first i
\* entities have been processed, and when the run has ended, normally or on
\* an entity that raised, success + failed is the number of catalog entities.
C34_EachEntityCountedOnce ==
    /\ pc = "download" => success + failed = i
    /\ (pc = "done" \/ (pc = "crashed" /\ fault = "prompt[:60] raised"))
          => success + failed = Len(all_images)

\* C35: the pass for one entity requests no URL twice, and it sends the
\* thumbnail request only after an answer to the first request that was not
\* a 200 image of more than MinImageBytes bytes.
C35_NoUrlRequestedTwice ==
    pc = "downloaded"
        => /\ \A m, n \in 1..Len(asked) : m # n => asked[m].url # asked[n].url
           /\ Len(asked) >= 2
                 => ~(/\ asked[1].res.kind = "resp"
                      /\ asked[1].res.status = 200
                      /\ asked[1].res.size > MinImageBytes)

\* C36: a call of the catalog method that follows an earlier call leaves the
\* catalog as it is when no response was captured in between, and otherwise
\* only appends records whose identity the catalog did not hold.
C36_ExtractionIsIdempotent ==
    [][(pc = "catalog" /\ cursor >= 1 /\ cursor' = cursor + 1)
          => /\ (captured_count = Len(api_responses)) => (all_images' = all_images)
             /\ IsPrefix(all_images, all_images')
             /\ \A n \in (Len(all_images) + 1)..Len(all_images') :
                   IdentityKey(all_images'[n]) \notin Identities(all_images)]_vars

\* C37: when a run of download_browser.py or download_local.py has ended,
\* every record the catalog method takes from the responses held in
\* api_responses is in the catalog, whenever the response was recorded.
C37_NoCapturedEntityIsLost ==
    (variant \in {"browser", "local"} /\ pc = "done")
        => Records(CatalogOf(api_responses)) \subseteq Records(all_images)

\* the names of the image files the script can write for entry j of `list`
NamesFor(list, j) ==
    {Pass(variant, list[j + 1], j, r1, r2).file.name : r1, r2 \in ImageResults}
    \ {<<>>}

\* C38: metadata.json is written before the first download request, and
\* every image file carries the index of the metadata entry it was
\* downloaded for: the file with index j is a file of entry j of the list
\* in metadata.json.
C38_MetadataFirstAndIndexed ==
    /\ pc = "download" => metadata.written
    /\ \A f \in files :
          \E j \in 0..(Len(metadata.content) - 1) :
              /\ SubSeq(f.name, 1, Len(Format04d(j))) = Format04d(j)
              /\ f.name \in NamesFor(metadata.content, j)

====
